---- MODULE Spec2Model ----
(***************************************************************************)
(* Model of src/Telegram_bot.py: the SQLite repository of categories and   *)
(* files (DatabaseManager), the per-user upload sessions                   *)
(* (FileManagerBot.pending_uploads) and the update handlers that drive     *)
(* them.  Strings that the code slices (callback data, deep-link           *)
(* arguments, category ids) are sequences of one-character strings.        *)
(* Application.builder() is used without concurrent_updates, and no        *)
(* handler awaits between its reads and writes of shared state, so every   *)
(* handler is one atomic action.                                           *)
(***************************************************************************)
EXTENDS Integers, Sequences, FiniteSets, Bags, TLC

VARIABLES categories, files, sqlite_sequence, pending_uploads, reply, discarded,
          suspended, keyboards

vars == <<categories, files, sqlite_sequence, pending_uploads, reply, discarded,
          suspended, keyboards>>

(* ------------------------------ bounds -------------------------------- *)

\* cap on the documents the bot accepts: rows ever inserted into table files
\* (its AUTOINCREMENT counter) plus files waiting in pending_uploads
MaxRowId == 2

\* cap on the handlers that are suspended at an await at the same time
MaxSuspended == 2

\* cap on the deletion menus that are on the screen at the same time
MaxKeyboards == 2

(* --------------------------- input universe --------------------------- *)

\* Python's None, and the empty str
None == "None"

ADMIN_IDS == {1, 2}

\* the users that send updates: an admin and a user who is not one
UserIds == {1, 3}

\* values str(uuid.uuid4())[:8] can take (hex digits only), shortened
CategoryIds == {<<"a">>, <<"b">>}

CategoryNames == {"Docs"}

\* values of datetime.now().isoformat()
Timestamps == {"t1"}

\* update.message of a document message: document.file_id, .file_name,
\* .file_size and message.caption (file_name and caption are optional in
\* the Bot API)
DocumentMessages ==
    { [file_id |-> "h1", file_name |-> "n1", file_size |-> 1, caption |-> "c1"],
      [file_id |-> "h2", file_name |-> "n2", file_size |-> 2, caption |-> None],
      [file_id |-> "h3", file_name |-> None, file_size |-> 3, caption |-> None] }

(* ------------------------- str operations ----------------------------- *)

startswith(s, p) == Len(s) >= Len(p) /\ SubSeq(s, 1, Len(p)) = p

\* s[n:]
SliceFrom(s, n) == SubSeq(s, n + 1, Len(s))

\* positions of "_" in s
UnderscoreAt(s) == {i \in 1..Len(s) : s[i] = "_"}

Min(S) == CHOOSE x \in S : \A y \in S : x <= y

\* s.split('_', 1)
split1(s) ==
    IF UnderscoreAt(s) = {} THEN <<s>>
    ELSE LET i == Min(UnderscoreAt(s))
         IN  <<SubSeq(s, 1, i - 1), SubSeq(s, i + 1, Len(s))>>

Digits == <<"0", "1", "2", "3", "4", "5", "6", "7", "8", "9">>

IsDigit(ch) == \E d \in 1..10 : Digits[d] = ch

DigitVal(ch) == (CHOOSE d \in 1..10 : Digits[d] = ch) - 1

RECURSIVE DigitsValue(_)
DigitsValue(s) ==
    IF s = <<>> THEN 0
    ELSE 10 * DigitsValue(SubSeq(s, 1, Len(s) - 1)) + DigitVal(s[Len(s)])

\* digit groups separated by single underscores, as int() accepts them
IsDecimal(s) ==
    /\ s # <<>>
    /\ \A i \in 1..Len(s) : IsDigit(s[i]) \/ s[i] = "_"
    /\ IsDigit(s[1]) /\ IsDigit(s[Len(s)])
    /\ \A i \in 1..(Len(s) - 1) : ~(s[i] = "_" /\ s[i + 1] = "_")

StripUnderscores(s) == SelectSeq(s, LAMBDA ch : ch # "_")

\* int(s): ok = FALSE stands for ValueError
int(s) ==
    LET signed == s # <<>> /\ s[1] \in {"-", "+"}
        body   == IF signed THEN SliceFrom(s, 1) ELSE s
    IN  IF IsDecimal(body)
        THEN [ok |-> TRUE,
              val |-> IF signed /\ s[1] = "-"
                      THEN 0 - DigitsValue(StripUnderscores(body))
                      ELSE DigitsValue(StripUnderscores(body))]
        ELSE [ok |-> FALSE, val |-> 0]

\* str(i) of the f-string, for the non-negative i that enumerate() yields
RECURSIVE str(_)
str(i) == IF i < 10 THEN <<Digits[i + 1]>> ELSE str(i \div 10) \o <<Digits[(i % 10) + 1]>>

(* --------------------------- DatabaseManager -------------------------- *)

\* Table categories is a map id -> row (id TEXT PRIMARY KEY).  Table files
\* is the sequence of its rows in rowid (B-tree) order; sqlite_sequence is
\* the AUTOINCREMENT counter of files.  Column upload_date is written and
\* never read, and is left out of the rows.  sqlite3.connect() does not
\* enable PRAGMA foreign_keys, so the FOREIGN KEY ... ON DELETE CASCADE
\* clause of files is not enforced.

RECURSIVE Reverse(_)
Reverse(s) == IF s = <<>> THEN <<>> ELSE Append(Reverse(Tail(s)), Head(s))

\* the scan returning the newest row first
SelectFilesWhereNewestFirst(rows, category_id) ==
    Reverse(SelectSeq(rows, LAMBDA r : r.category_id = category_id))

\* sqlite3: SELECT ... FROM files WHERE category_id = ?  (no ORDER BY): a
\* scan of the table in stored order
SelectFilesWhere(rows, category_id) ==
    SelectSeq(rows, LAMBDA r : r.category_id = category_id)

RECURSIVE OrderById(_)
\* sqlite3: ORDER BY id
OrderById(rows) ==
    IF rows = <<>> THEN <<>>
    ELSE LET m == CHOOSE i \in 1..Len(rows) :
                      \A j \in 1..Len(rows) : rows[i].id <= rows[j].id
         IN  <<rows[m]>> \o
             OrderById(SubSeq(rows, 1, m - 1) \o SubSeq(rows, m + 1, Len(rows)))

\* list[i] of Python: ok = FALSE stands for IndexError
PyIndex(list, i) ==
    IF i >= 0 /\ i < Len(list) THEN [ok |-> TRUE, pos |-> i + 1]
    ELSE IF i < 0 /\ i >= 0 - Len(list) THEN [ok |-> TRUE, pos |-> Len(list) + i + 1]
    ELSE [ok |-> FALSE, pos |-> 0]

\* `x or ''`
OrEmpty(x) == IF x = None THEN "" ELSE x

\* an INSERT OR REPLACE: a duplicate id overwrites the row it collides with
add_category_or_replace(category_id, name, created_by, now, fault) ==
    IF fault
    THEN [ok |-> FALSE, categories |-> categories]
    ELSE [ok |-> TRUE,
          categories |->
              [c \in DOMAIN categories \cup {category_id} |->
                  IF c = category_id
                  THEN [name |-> name, created_by |-> created_by, created_at |-> now]
                  ELSE categories[c]]]

\* DatabaseManager.add_category; fault = a storage error raised by sqlite3.
\* A duplicate id violates the PRIMARY KEY and raises IntegrityError.
add_category(category_id, name, created_by, now, fault) ==
    IF fault \/ category_id \in DOMAIN categories
    THEN [ok |-> FALSE, categories |-> categories]
    ELSE [ok |-> TRUE,
          categories |->
              [c \in DOMAIN categories \cup {category_id} |->
                  IF c = category_id
                  THEN [name |-> name, created_by |-> created_by, created_at |-> now]
                  ELSE categories[c]]]

\* the dicts get_categories builds from the rows of one category
FileDicts(rows) ==
    [i \in 1..Len(rows) |->
        [file_id |-> rows[i].file_id, file_name |-> rows[i].file_name,
         file_size |-> rows[i].file_size, caption |-> OrEmpty(rows[i].caption)]]

\* DatabaseManager.get_categories (the order of the dict's keys is not
\* modelled)
get_categories ==
    [c \in DOMAIN categories |->
        [name |-> categories[c].name,
         files |-> FileDicts(SelectFilesWhere(files, c)),
         created_by |-> categories[c].created_by,
         created_at |-> categories[c].created_at]]

\* the None that dict.get returns, in the shape of a category
NoCategory == [name |-> None, files |-> <<>>, created_by |-> 0, created_at |-> None]

\* DatabaseManager.get_category
get_category(category_id) ==
    IF category_id \in DOMAIN get_categories THEN get_categories[category_id]
    ELSE NoCategory

RECURSIVE ExecuteInserts(_, _, _, _, _, _)
\* the for loop of add_files_to_category inside the open transaction, from
\* the k-th file on; fault = k makes the k-th INSERT raise a storage error,
\* and a None file_name violates NOT NULL
ExecuteInserts(rows, seq, category_id, fs, k, fault) ==
    IF k > Len(fs) THEN [raised |-> FALSE, rows |-> rows, seq |-> seq]
    ELSE IF fault = k \/ fs[k].file_name = None
    THEN [raised |-> TRUE, rows |-> rows, seq |-> seq]
    ELSE ExecuteInserts(
             Append(rows, [id |-> seq + 1, category_id |-> category_id,
                           file_id |-> fs[k].file_id, file_name |-> fs[k].file_name,
                           file_size |-> fs[k].file_size, caption |-> fs[k].caption]),
             seq + 1, category_id, fs, k + 1, fault)

\* a batch insert that walks the list from its end
add_files_to_category_last_first(category_id, fs, fault) ==
    LET tx == ExecuteInserts(files, sqlite_sequence, category_id, Reverse(fs), 1, fault)
    IN  IF tx.raised \/ fault = Len(fs) + 1
        THEN [ok |-> FALSE, files |-> files, seq |-> sqlite_sequence]
        ELSE [ok |-> TRUE, files |-> tx.rows, seq |-> tx.seq]

\* a batch insert whose statements are committed one by one: an exception
\* leaves the rows inserted before it
add_files_to_category_autocommit(category_id, fs, fault) ==
    LET tx == ExecuteInserts(files, sqlite_sequence, category_id, fs, 1, fault)
    IN  IF tx.raised \/ fault = Len(fs) + 1
        THEN [ok |-> FALSE, files |-> tx.rows, seq |-> tx.seq]
        ELSE [ok |-> TRUE, files |-> tx.rows, seq |-> tx.seq]

\* DatabaseManager.add_files_to_category; fault = 0: no storage error,
\* fault = Len(fs) + 1: conn.commit() raises.  Leaving the with block on an
\* exception rolls the transaction back.
add_files_to_category(category_id, fs, fault) ==
    LET tx == ExecuteInserts(files, sqlite_sequence, category_id, fs, 1, fault)
    IN  IF tx.raised \/ fault = Len(fs) + 1
        THEN [ok |-> FALSE, files |-> files, seq |-> sqlite_sequence]
        ELSE [ok |-> TRUE, files |-> tx.rows, seq |-> tx.seq]

\* DatabaseManager.delete_file
delete_file(category_id, file_index, fault) ==
    LET file_ids == OrderById(SelectFilesWhere(files, category_id))
        at       == PyIndex(file_ids, file_index)
    IN  IF fault THEN [ok |-> FALSE, files |-> files]
        ELSE IF file_index >= Len(file_ids) THEN [ok |-> FALSE, files |-> files]
        ELSE IF ~at.ok THEN [ok |-> FALSE, files |-> files]
        ELSE [ok |-> TRUE,
              files |-> SelectSeq(files, LAMBDA r : r.id # file_ids[at.pos].id)]

\* a delete that leaves the files to a cascade the connection does not run
delete_category_rows_kept(category_id, fault) ==
    IF fault THEN [ok |-> FALSE, categories |-> categories, files |-> files]
    ELSE [ok |-> TRUE,
          categories |-> [c \in DOMAIN categories \ {category_id} |-> categories[c]],
          files |-> files]

\* DatabaseManager.delete_category
delete_category(category_id, fault) ==
    IF fault THEN [ok |-> FALSE, categories |-> categories, files |-> files]
    ELSE [ok |-> TRUE,
          categories |-> [c \in DOMAIN categories \ {category_id} |-> categories[c]],
          files |-> SelectSeq(files, LAMBDA r : r.category_id # category_id)]

\* a check that lets every user through
is_admin_everyone(user_id) == user_id \in UserIds

\* FileManagerBot.is_admin
is_admin(user_id) == user_id \in ADMIN_IDS

\* FileManagerBot.generate_category_link: the start parameter of the link
generate_category_link(category_id) == <<"c", "a", "t", "_">> \o category_id

(* ---------------------------- callback data --------------------------- *)

\* callback_data of the buttons handle_category_access renders
view_data(category_id) == <<"v", "i", "e", "w", "_">> \o category_id

add_data(category_id) == <<"a", "d", "d", "_">> \o category_id

delete_file_data(category_id) ==
    <<"d", "e", "l", "e", "t", "e", "_", "f", "i", "l", "e", "_">> \o category_id

delete_cat_data(category_id) ==
    <<"d", "e", "l", "e", "t", "e", "_", "c", "a", "t", "_">> \o category_id

\* callback_data of the buttons confirm_category_deletion renders
confirm_del_cat_data(category_id) ==
    <<"c", "o", "n", "f", "i", "r", "m", "_", "d", "e", "l", "_", "c", "a", "t", "_">>
        \o category_id

cancel_data == <<"c", "a", "n", "c", "e", "l">>

\* callback_data of the i-th button show_files_for_deletion renders
del_file_data(category_id, i) ==
    <<"d", "e", "l", "_", "f", "i", "l", "e", "_">> \o category_id \o <<"_">> \o str(i)

\* callback data the bot itself puts on buttons
EmittedData ==
    UNION { {view_data(c), add_data(c), delete_file_data(c), delete_cat_data(c),
             confirm_del_cat_data(c)}
            \cup {del_file_data(c, i) : i \in 0..(MaxRowId - 1)} : c \in CategoryIds }
    \cup {cancel_data}

\* callback data a client can send although no button carries it
ForgedData ==
    {<<"d", "e", "l", "_", "f", "i", "l", "e", "_">> \o c \o <<"_", "-", "1">> : c \in CategoryIds}
    \cup {<<"d", "e", "l", "_", "f", "i", "l", "e", "_", "a", "_", "x">>,
          <<"d", "e", "l", "_", "f", "i", "l", "e", "_", "a">>,
          <<"z">>}

CallbackData == EmittedData \cup ForgedData

\* context.args of /start
StartArgs == {<<>>} \cup {<<generate_category_link(c)>> : c \in CategoryIds}

\* context.args of /upload
UploadArgs == {<<>>} \cup {<<c>> : c \in CategoryIds}

\* context.args of /new_category
NewCategoryArgs == {<<>>} \cup {<<n>> : n \in CategoryNames}

(* ------------------------------ replies ------------------------------- *)

\* What the handler of the last update sent back: the chat, the message
\* (text names the message of the source), the number and the name the
\* message quotes and the start parameter of the link it quotes.  The
\* buttons and the documents that go with a message are not recorded.
Reply(chat, text, n, name, link) ==
    [chat |-> chat, text |-> text, n |-> n, name |-> name, link |-> link]

Say(chat, text) == Reply(chat, text, 0, "", <<>>)

\* the handler returned, or raised, without sending anything
NoReply == "no_reply"

Raised == "exception"

\* number of files held in pending_uploads
RECURSIVE PendingTotal(_)
PendingTotal(U) ==
    IF U = {} THEN 0
    ELSE LET u == CHOOSE x \in U : TRUE
         IN  Len(pending_uploads[u].files) + PendingTotal(U \ {u})

UnchangedDb == UNCHANGED <<categories, files, sqlite_sequence>>

(* ------------------------------ handlers ------------------------------ *)

\* handle_category_access
handle_category_access(user_id, category_id) ==
    LET category == get_category(category_id)
    IN  /\ reply' =
              IF category = NoCategory THEN Say(user_id, "category_not_found")
              ELSE IF is_admin(user_id)
              THEN Reply(user_id, "admin_menu", Len(category.files), category.name, <<>>)
              ELSE IF category.files = <<>> THEN Say(user_id, "no_files")
              ELSE Reply(user_id, "sending_files", Len(category.files), category.name,
                         <<>>)
        /\ UnchangedDb
        /\ UNCHANGED pending_uploads

\* start
start(user_id, args) ==
    IF args # <<>> /\ startswith(args[1], <<"c", "a", "t", "_">>)
    THEN handle_category_access(user_id, SliceFrom(args[1], 4))
    ELSE /\ reply' = Say(user_id,
                         IF is_admin(user_id) THEN "hello_admin" ELSE "hello")
         /\ UnchangedDb
         /\ UNCHANGED pending_uploads

\* new_category; category_id is the value of str(uuid.uuid4())[:8]
new_category(user_id, args, category_id, now, fault) ==
    IF ~is_admin(user_id)
        THEN /\ reply' = Say(user_id, "not_authorized")
             /\ UnchangedDb
             /\ UNCHANGED pending_uploads
        ELSE IF Len(args) = 0
        THEN /\ reply' = Say(user_id, "usage_new_category")
             /\ UnchangedDb
             /\ UNCHANGED pending_uploads
        ELSE LET category_name == args[1]
                 r == add_category(category_id, category_name, user_id, now, fault)
             IN  /\ categories' = r.categories
                 /\ reply' = IF r.ok
                             THEN Reply(user_id, "category_created", 0, category_name,
                                        generate_category_link(category_id))
                             ELSE Say(user_id, "create_failed")
                 /\ UNCHANGED <<files, sqlite_sequence, pending_uploads>>

\* a start that keeps the list of a session the caller already has
StartSession_keeps_files(user_id, category_id) ==
    [u \in DOMAIN pending_uploads \cup {user_id} |->
        IF u = user_id
        THEN [category_id |-> category_id,
              files |-> IF user_id \in DOMAIN pending_uploads
                        THEN pending_uploads[user_id].files ELSE <<>>]
        ELSE pending_uploads[u]]

\* pending_uploads[user_id] = {'category_id': category_id, 'files': []}
StartSession(user_id, category_id) ==
    [u \in DOMAIN pending_uploads \cup {user_id} |->
        IF u = user_id THEN [category_id |-> category_id, files |-> <<>>]
        ELSE pending_uploads[u]]

\* upload_command
upload_command(user_id, args) ==
    IF ~is_admin(user_id)
        THEN /\ reply' = Say(user_id, "not_authorized")
             /\ UnchangedDb
             /\ UNCHANGED pending_uploads
        ELSE IF Len(args) = 0
        THEN /\ reply' = Say(user_id, "usage_upload")
             /\ UnchangedDb
             /\ UNCHANGED pending_uploads
        ELSE LET category_id == args[1]
                 category == get_category(category_id)
             IN  IF category = NoCategory
                 THEN /\ reply' = Say(user_id, "category_not_found")
                      /\ UnchangedDb
                      /\ UNCHANGED pending_uploads
                 ELSE /\ pending_uploads' = StartSession(user_id, category_id)
                      /\ reply' = Reply(user_id, "upload_started", 0, category.name,
                                        <<>>)
                      /\ UnchangedDb

\* a handle_document that appends to a copy of the session's list, as an
\* append behind an await would to the list of a session that is gone
handle_document_appends_to_copy(user_id, message) ==
    IF user_id \notin DOMAIN pending_uploads
        THEN /\ reply' = Say(user_id, NoReply)
             /\ UnchangedDb
             /\ UNCHANGED pending_uploads
        ELSE LET upload_info == pending_uploads[user_id]
                 file_info == [file_id |-> message.file_id,
                               file_name |-> message.file_name,
                               file_size |-> message.file_size,
                               caption |-> OrEmpty(message.caption)]
                 appended == Append(upload_info.files, file_info)
             IN  /\ sqlite_sequence + PendingTotal(DOMAIN pending_uploads) < MaxRowId
                 /\ UNCHANGED pending_uploads
                 /\ reply' = Reply(user_id, "file_received", Len(appended),
                                   message.file_name, <<>>)
                 /\ UnchangedDb

\* a handle_document that puts the new file first: files.insert(0, file_info)
handle_document_inserts_first(user_id, message) ==
    IF user_id \notin DOMAIN pending_uploads
        THEN /\ reply' = Say(user_id, NoReply)
             /\ UnchangedDb
             /\ UNCHANGED pending_uploads
        ELSE LET upload_info == pending_uploads[user_id]
                 file_info == [file_id |-> message.file_id,
                               file_name |-> message.file_name,
                               file_size |-> message.file_size,
                               caption |-> OrEmpty(message.caption)]
                 inserted == <<file_info>> \o upload_info.files
             IN  /\ sqlite_sequence + PendingTotal(DOMAIN pending_uploads) < MaxRowId
                 /\ pending_uploads' =
                        [pending_uploads EXCEPT ![user_id].files = inserted]
                 /\ reply' = Reply(user_id, "file_received", Len(inserted),
                                   message.file_name, <<>>)
                 /\ UnchangedDb

\* handle_document; message is update.message
handle_document(user_id, message) ==
    IF user_id \notin DOMAIN pending_uploads
        THEN /\ reply' = Say(user_id, NoReply)
             /\ UnchangedDb
             /\ UNCHANGED pending_uploads
        ELSE LET upload_info == pending_uploads[user_id]
                 file_info == [file_id |-> message.file_id,
                               file_name |-> message.file_name,
                               file_size |-> message.file_size,
                               caption |-> OrEmpty(message.caption)]
                 appended == Append(upload_info.files, file_info)
             IN  /\ sqlite_sequence + PendingTotal(DOMAIN pending_uploads) < MaxRowId
                 /\ pending_uploads' =
                        [pending_uploads EXCEPT ![user_id].files = appended]
                 /\ reply' = Reply(user_id, "file_received", Len(appended),
                                   message.file_name, <<>>)
                 /\ UnchangedDb

\* a commit that keeps the session after the write succeeded
forget_session_never(user_id, success) == pending_uploads

\* a commit that forgets the session whatever the write returned
forget_session_always(user_id, success) ==
    [u \in DOMAIN pending_uploads \ {user_id} |-> pending_uploads[u]]

\* a commit that forgets every session that targets the committed category
forget_session_of_category(user_id, success) ==
    IF success
    THEN [u \in {v \in DOMAIN pending_uploads :
                    pending_uploads[v].category_id #
                        pending_uploads[user_id].category_id}
             |-> pending_uploads[u]]
    ELSE pending_uploads

\* finish_upload: `if success: del bot_manager.pending_uploads[user_id]`
forget_session_if(user_id, success) ==
    IF success
    THEN [u \in DOMAIN pending_uploads \ {user_id} |-> pending_uploads[u]]
    ELSE pending_uploads

\* a finish_upload that ends the session also when it holds no file
finish_upload_ends_empty_session(user_id, fault) ==
    IF user_id \notin DOMAIN pending_uploads
        THEN /\ reply' = Say(user_id, "no_upload")
             /\ UnchangedDb
             /\ UNCHANGED pending_uploads
        ELSE LET upload_info == pending_uploads[user_id]
                 category_id == upload_info.category_id
             IN  IF upload_info.files = <<>>
                 THEN /\ reply' = Say(user_id, "no_files_uploaded")
                      /\ UnchangedDb
                      /\ pending_uploads' = forget_session_if(user_id, TRUE)
                 ELSE LET r == add_files_to_category(category_id, upload_info.files, fault)
                      IN  /\ fault \in 0..(Len(upload_info.files) + 1)
                          /\ files' = r.files
                          /\ sqlite_sequence' = r.seq
                          /\ UNCHANGED categories
                          /\ pending_uploads' = forget_session_if(user_id, r.ok)
                          /\ reply' = IF r.ok
                                       THEN Reply(user_id, "files_added",
                                                  Len(upload_info.files), "",
                                                  generate_category_link(category_id))
                                       ELSE Say(user_id, "save_failed")

\* finish_upload; fault is the storage error, if any, met by the write
finish_upload(user_id, fault) ==
    IF user_id \notin DOMAIN pending_uploads
        THEN /\ reply' = Say(user_id, "no_upload")
             /\ UnchangedDb
             /\ UNCHANGED pending_uploads
        ELSE LET upload_info == pending_uploads[user_id]
                 category_id == upload_info.category_id
             IN  IF upload_info.files = <<>>
                 THEN /\ reply' = Say(user_id, "no_files_uploaded")
                      /\ UnchangedDb
                      /\ UNCHANGED pending_uploads
                 ELSE LET r == add_files_to_category(category_id, upload_info.files, fault)
                      IN  /\ fault \in 0..(Len(upload_info.files) + 1)
                          /\ files' = r.files
                          /\ sqlite_sequence' = r.seq
                          /\ UNCHANGED categories
                          /\ pending_uploads' = forget_session_if(user_id, r.ok)
                          /\ reply' = IF r.ok
                                       THEN Reply(user_id, "files_added",
                                                  Len(upload_info.files), "",
                                                  generate_category_link(category_id))
                                       ELSE Say(user_id, "save_failed")

\* categories_list
categories_list(user_id) ==
    /\ reply' = IF ~is_admin(user_id) THEN Say(user_id, "not_authorized")
                ELSE IF DOMAIN get_categories = {}
                THEN Say(user_id, "no_categories")
                ELSE Reply(user_id, "categories", Cardinality(DOMAIN get_categories),
                           "", <<>>)
    /\ UnchangedDb
    /\ UNCHANGED pending_uploads

\* view_category_files
view_category_files(user_id, category_id) ==
    LET category == get_category(category_id)
    IN  /\ reply' = IF category = NoCategory THEN Say(user_id, "category_not_found")
                    ELSE IF category.files = <<>> THEN Say(user_id, "no_files")
                    ELSE Reply(user_id, "sending_files", Len(category.files),
                               category.name, <<>>)
        /\ UnchangedDb
        /\ UNCHANGED pending_uploads

\* start_adding_files
start_adding_files(user_id, category_id) ==
    /\ pending_uploads' = StartSession(user_id, category_id)
    /\ reply' = Say(user_id, "adding_started")
    /\ UnchangedDb

\* show_files_for_deletion
show_files_for_deletion(user_id, category_id) ==
    LET category == get_category(category_id)
    IN  /\ reply' = IF category = NoCategory THEN Say(user_id, "category_not_found")
                    ELSE IF category.files = <<>> THEN Say(user_id, "no_files")
                    ELSE Reply(user_id, "choose_file", Len(category.files), "", <<>>)
        /\ UnchangedDb
        /\ UNCHANGED pending_uploads

\* delete_file_from_category
delete_file_from_category(user_id, category_id, file_index, fault) ==
    LET category == get_category(category_id)
        at == PyIndex(category.files, file_index)
    IN  IF category = NoCategory
        THEN /\ reply' = Say(user_id, "category_not_found")
             /\ UnchangedDb
             /\ UNCHANGED pending_uploads
        ELSE IF file_index >= Len(category.files)
        THEN /\ reply' = Say(user_id, "file_not_found")
             /\ UnchangedDb
             /\ UNCHANGED pending_uploads
        ELSE IF ~at.ok
        THEN /\ reply' = Say(user_id, Raised)
             /\ UnchangedDb
             /\ UNCHANGED pending_uploads
        ELSE LET deleted_file_name == category.files[at.pos].file_name
                 r == delete_file(category_id, file_index, fault)
             IN  /\ files' = r.files
                 /\ reply' = IF r.ok
                             THEN Reply(user_id, "file_deleted", 0, deleted_file_name,
                                        <<>>)
                             ELSE Say(user_id, "delete_file_failed")
                 /\ UNCHANGED <<categories, sqlite_sequence, pending_uploads>>

\* confirm_category_deletion
confirm_category_deletion(user_id, category_id) ==
    /\ reply' = Say(user_id, "confirm_deletion")
    /\ UnchangedDb
    /\ UNCHANGED pending_uploads

\* delete_category (the handler)
delete_category_handler(user_id, category_id, fault) ==
    LET category == get_category(category_id)
    IN  IF category = NoCategory
        THEN /\ reply' = Say(user_id, "category_not_found")
             /\ UnchangedDb
             /\ UNCHANGED pending_uploads
        ELSE LET category_name == category.name
                 r == delete_category(category_id, fault)
             IN  /\ categories' = r.categories
                 /\ files' = r.files
                 /\ reply' = IF r.ok
                             THEN Reply(user_id, "category_deleted", 0, category_name,
                                        <<>>)
                             ELSE Say(user_id, "delete_category_failed")
                 /\ UNCHANGED <<sqlite_sequence, pending_uploads>>

\* the if/elif chain of button_handler: the branch query.data selects and
\* the arguments it slices out of it; Raised stands for the IndexError of
\* parts[1] and the ValueError of int()
Route(data) ==
    LET To(branch, category_id, file_index) ==
            [to |-> branch, category_id |-> category_id, file_index |-> file_index]
    IN  IF startswith(data, <<"v", "i", "e", "w", "_">>)
        THEN To("view_category_files", SliceFrom(data, 5), 0)
        ELSE IF startswith(data, <<"a", "d", "d", "_">>)
        THEN To("start_adding_files", SliceFrom(data, 4), 0)
        ELSE IF startswith(data, <<"d", "e", "l", "e", "t", "e", "_", "f", "i", "l", "e", "_">>)
        THEN To("show_files_for_deletion", SliceFrom(data, 12), 0)
        ELSE IF startswith(data, <<"d", "e", "l", "e", "t", "e", "_", "c", "a", "t", "_">>)
        THEN To("confirm_category_deletion", SliceFrom(data, 11), 0)
        ELSE IF startswith(data, <<"c", "o", "n", "f", "i", "r", "m", "_", "d", "e", "l", "_",
                                   "c", "a", "t", "_">>)
        THEN To("delete_category", SliceFrom(data, 16), 0)
        ELSE IF startswith(data, <<"d", "e", "l", "_", "f", "i", "l", "e", "_">>)
        THEN LET parts == split1(SliceFrom(data, 9))
             IN  IF Len(parts) < 2 THEN To(Raised, <<>>, 0)
                 ELSE IF ~int(parts[2]).ok THEN To(Raised, parts[1], 0)
                 ELSE To("delete_file_from_category", parts[1], int(parts[2]).val)
        ELSE To(NoReply, <<>>, 0)

\* Route, tabulated over the callback data of the model
Routes == [data \in CallbackData |-> Route(data)]

\* button_handler; data is query.data
button_handler(user_id, data, fault) ==
    LET Quiet(text) == /\ reply' = Say(user_id, text)
                       /\ UnchangedDb
                       /\ UNCHANGED pending_uploads
        r == Routes[data]
    IN  IF ~is_admin(user_id) THEN Quiet("not_authorized")
        ELSE IF r.to = "view_category_files"
        THEN view_category_files(user_id, r.category_id)
        ELSE IF r.to = "start_adding_files"
        THEN start_adding_files(user_id, r.category_id)
        ELSE IF r.to = "show_files_for_deletion"
        THEN show_files_for_deletion(user_id, r.category_id)
        ELSE IF r.to = "confirm_category_deletion"
        THEN confirm_category_deletion(user_id, r.category_id)
        ELSE IF r.to = "delete_category"
        THEN delete_category_handler(user_id, r.category_id, fault)
        ELSE IF r.to = "delete_file_from_category"
        THEN delete_file_from_category(user_id, r.category_id, r.file_index, fault)
        ELSE Quiet(r.to)

(* --------------------------- specification ---------------------------- *)

\* list s without its element at position i (1-based)
RemoveAt(s, i) == SubSeq(s, 1, i - 1) \o SubSeq(s, i + 1, Len(s))

\* s is a prefix of t
IsPrefix(s, t) == Len(s) <= Len(t) /\ SubSeq(t, 1, Len(s)) = s

\* History of the last update: the number of files its sender had
\* accumulated in pending_uploads that its handler removed from memory
\* without writing them to table files (the dict that
\* `pending_uploads[user_id] = {...}` overwrites is garbage afterwards).
Discarded ==
    LET user_id == reply'.chat
    IN  IF /\ user_id \in DOMAIN pending_uploads
           /\ files' = files
           /\ \/ user_id \notin DOMAIN pending_uploads'
              \/ ~IsPrefix(pending_uploads[user_id].files,
                           pending_uploads'[user_id].files)
        THEN Len(pending_uploads[user_id].files)
        ELSE 0

\* the state after FileManagerBot() on a fresh database, before any update
Init ==
    /\ categories = <<>>
    /\ files = <<>>
    /\ sqlite_sequence = 0
    /\ pending_uploads = <<>>
    /\ reply = Say(0, NoReply)
    /\ discarded = 0
    /\ suspended = EmptyBag
    /\ keyboards = <<>>

Start ==
    \E u \in UserIds, a \in StartArgs :
        /\ start(u, a)
        /\ discarded' = Discarded
        /\ UNCHANGED <<suspended, keyboards>>

\* a storage error can only show in an update that reaches the database
NewCategory ==
    \E u \in UserIds, a \in NewCategoryArgs, c \in CategoryIds, t \in Timestamps,
       fault \in BOOLEAN :
        /\ fault => (is_admin(u) /\ a # <<>>)
        /\ new_category(u, a, c, t, fault)
        /\ discarded' = Discarded
        /\ UNCHANGED <<suspended, keyboards>>

UploadCommand ==
    \E u \in UserIds, a \in UploadArgs :
        /\ upload_command(u, a)
        /\ discarded' = Discarded
        /\ UNCHANGED <<suspended, keyboards>>

HandleDocument ==
    \E u \in UserIds, m \in DocumentMessages :
        /\ handle_document(u, m)
        /\ discarded' = Discarded
        /\ UNCHANGED <<suspended, keyboards>>

FinishUpload ==
    \E u \in UserIds, fault \in 0..(MaxRowId + 1) :
        /\ fault > 0 => u \in DOMAIN pending_uploads
        /\ finish_upload(u, fault)
        /\ discarded' = Discarded
        /\ UNCHANGED <<suspended, keyboards>>

CategoriesList ==
    \E u \in UserIds :
        /\ categories_list(u)
        /\ discarded' = Discarded
        /\ UNCHANGED <<suspended, keyboards>>

\* the callback data whose handling writes to the database
WritesDb(data) == Routes[data].to \in {"delete_category", "delete_file_from_category"}

ButtonHandler ==
    \E u \in UserIds, d \in CallbackData, fault \in BOOLEAN :
        /\ fault => (is_admin(u) /\ WritesDb(d))
        /\ button_handler(u, d, fault)
        /\ discarded' = Discarded
        /\ UNCHANGED <<suspended, keyboards>>

Next ==
    \/ Start
    \/ NewCategory
    \/ UploadCommand
    \/ HandleDocument
    \/ FinishUpload
    \/ CategoriesList
    \/ ButtonHandler

Spec == Init /\ [][Next]_vars

(* ------------------- handlers overlapping at awaits -------------------- *)

\* Spec runs every handler to its end before the next update, as the
\* Application that main() builds does.  SpecAsync lets the handlers of
\* updates overlap: a coroutine runs from one await to the next without
\* interruption and may be overtaken while it is suspended.  Two awaits
\* have something behind them, or something to say, for the sessions:
\* `await query.answer()`, behind which button_handler reads the query and
\* dispatches, and the `await update.message.reply_text` by which
\* handle_document acknowledges the file it has appended.  The other
\* handlers are suspended only in their last await, with nothing left to
\* run behind it, and are not kept.  Variable suspended is the bag of the
\* coroutines suspended at these two awaits.

\* the caller whose same-caller overlaps SpecAsync explores
AsyncUserIds == {1}

\* the queries of that caller: the add-files button of each category
AsyncData == {add_data(c) : c \in CategoryIds}

\* button_handler suspended at `await query.answer()`
AnswerTask(user_id, data) == [at |-> "query.answer", user_id |-> user_id, data |-> data]

\* handle_document suspended at the reply_text that acknowledges a file
AckTask(user_id) == [at |-> "reply_text", user_id |-> user_id, data |-> <<>>]

Suspend(task) ==
    /\ BagCardinality(suspended) < MaxSuspended
    /\ suspended' = suspended (+) SetToBag({task})

Resume(task) == suspended' = suspended (-) SetToBag({task})

AsyncNewCategory ==
    \E u \in AsyncUserIds, a \in NewCategoryArgs \ {<<>>}, c \in CategoryIds,
       t \in Timestamps :
        /\ new_category(u, a, c, t, FALSE)
        /\ discarded' = Discarded
        /\ UNCHANGED <<suspended, keyboards>>

AsyncUploadCommand ==
    \E u \in AsyncUserIds, a \in UploadArgs \ {<<>>} :
        /\ upload_command(u, a)
        /\ discarded' = Discarded
        /\ UNCHANGED <<suspended, keyboards>>

\* handle_document up to its await
AsyncHandleDocument ==
    \E u \in AsyncUserIds, m \in DocumentMessages :
        /\ handle_document(u, m)
        /\ discarded' = Discarded
        /\ IF reply'.text = NoReply THEN UNCHANGED suspended
           ELSE Suspend(AckTask(u))
        /\ UNCHANGED keyboards

\* the acknowledgement is delivered and handle_document returns
AsyncAcknowledged ==
    \E task \in BagToSet(suspended) :
        /\ task.at = "reply_text"
        /\ Resume(task)
        /\ discarded' = 0
        /\ UNCHANGED <<categories, files, sqlite_sequence, pending_uploads, reply, keyboards>>

AsyncFinishUpload ==
    \E u \in AsyncUserIds, fault \in 0..(MaxRowId + 1) :
        /\ fault > 0 => u \in DOMAIN pending_uploads
        /\ finish_upload(u, fault)
        /\ discarded' = Discarded
        /\ UNCHANGED <<suspended, keyboards>>

\* button_handler up to `await query.answer()`
AsyncButtonPressed ==
    \E u \in AsyncUserIds, d \in AsyncData :
        /\ Suspend(AnswerTask(u, d))
        /\ discarded' = 0
        /\ UNCHANGED <<categories, files, sqlite_sequence, pending_uploads, reply, keyboards>>

\* button_handler behind `await query.answer()`
AsyncButtonAnswered ==
    \E task \in BagToSet(suspended) :
        /\ task.at = "query.answer"
        /\ button_handler(task.user_id, task.data, FALSE)
        /\ discarded' = Discarded
        /\ Resume(task)
        /\ UNCHANGED keyboards

NextAsync ==
    \/ AsyncNewCategory
    \/ AsyncUploadCommand
    \/ AsyncHandleDocument
    \/ AsyncAcknowledged
    \/ AsyncFinishUpload
    \/ AsyncButtonPressed
    \/ AsyncButtonAnswered

SpecAsync == Init /\ [][NextAsync]_vars

(* ------------------------------ two admins ----------------------------- *)

\* SpecAdmins runs the handlers one after the other, as Spec does, for two
\* users of the admin set and the updates that start, fill and commit
\* upload sessions.

AdminUserIds == {1, 2}

\* the queries that start a session: the add-files button of each category
AdminsData == {add_data(c) : c \in CategoryIds}

AdminsNewCategory ==
    \E u \in AdminUserIds, a \in NewCategoryArgs \ {<<>>}, c \in CategoryIds,
       t \in Timestamps :
        /\ new_category(u, a, c, t, FALSE)
        /\ discarded' = Discarded
        /\ UNCHANGED <<suspended, keyboards>>

AdminsUploadCommand ==
    \E u \in AdminUserIds, a \in UploadArgs \ {<<>>} :
        /\ upload_command(u, a)
        /\ discarded' = Discarded
        /\ UNCHANGED <<suspended, keyboards>>

AdminsHandleDocument ==
    \E u \in AdminUserIds, m \in DocumentMessages :
        /\ handle_document(u, m)
        /\ discarded' = Discarded
        /\ UNCHANGED <<suspended, keyboards>>

AdminsFinishUpload ==
    \E u \in AdminUserIds, fault \in 0..1 :
        /\ fault > 0 => u \in DOMAIN pending_uploads
        /\ finish_upload(u, fault)
        /\ discarded' = Discarded
        /\ UNCHANGED <<suspended, keyboards>>

AdminsButtonHandler ==
    \E u \in AdminUserIds, d \in AdminsData :
        /\ button_handler(u, d, FALSE)
        /\ discarded' = Discarded
        /\ UNCHANGED <<suspended, keyboards>>

NextAdmins ==
    \/ AdminsNewCategory
    \/ AdminsUploadCommand
    \/ AdminsHandleDocument
    \/ AdminsFinishUpload
    \/ AdminsButtonHandler

SpecAdmins == Init /\ [][NextAdmins]_vars

(* -------------------------- the deletion menu -------------------------- *)

\* SpecMenus runs the handlers one after the other for the updates that
\* fill a category and delete its files, and keeps in variable keyboards
\* the deletion menus that are on the screen, oldest first.
\* show_files_for_deletion turns the message of an admin menu, of which
\* every `/start cat_<id>` sends a new one, into a deletion menu; the
\* message keeps its buttons until delete_file_from_category edits it, so
\* a button can be pressed after updates that came later than the one that
\* rendered it, and by either admin.

\* the admin who fills the categories
MenusUserIds == {1}

\* the keyboard show_files_for_deletion builds: the name on each button and
\* its callback_data
DeletionKeyboard(category_id) ==
    [k \in 1..Len(FileDicts(SelectFilesWhere(files, category_id))) |->
        [text |-> FileDicts(SelectFilesWhere(files, category_id))[k].file_name,
         callback_data |-> del_file_data(category_id, k - 1)]]

MenusNewCategory ==
    \E u \in MenusUserIds, a \in NewCategoryArgs \ {<<>>}, c \in CategoryIds,
       t \in Timestamps :
        /\ new_category(u, a, c, t, FALSE)
        /\ discarded' = Discarded
        /\ UNCHANGED <<suspended, keyboards>>

MenusUploadCommand ==
    \E u \in MenusUserIds, a \in UploadArgs \ {<<>>} :
        /\ upload_command(u, a)
        /\ discarded' = Discarded
        /\ UNCHANGED <<suspended, keyboards>>

MenusHandleDocument ==
    \E u \in MenusUserIds, m \in DocumentMessages :
        /\ handle_document(u, m)
        /\ discarded' = Discarded
        /\ UNCHANGED <<suspended, keyboards>>

MenusFinishUpload ==
    \E u \in MenusUserIds :
        /\ finish_upload(u, 0)
        /\ discarded' = Discarded
        /\ UNCHANGED <<suspended, keyboards>>

\* the delete-file button of an admin menu is pressed: the message becomes
\* a deletion menu when show_files_for_deletion renders one
MenusShowFilesForDeletion ==
    \E u \in AdminUserIds, c \in CategoryIds :
        /\ Len(keyboards) < MaxKeyboards
        /\ button_handler(u, delete_file_data(c), FALSE)
        /\ discarded' = Discarded
        /\ keyboards' = IF reply'.text = "choose_file"
                        THEN Append(keyboards, DeletionKeyboard(c))
                        ELSE keyboards
        /\ UNCHANGED suspended

\* a button of a deletion menu is pressed: delete_file_from_category edits
\* the message, which loses its buttons
MenusDeleteButton ==
    \E u \in AdminUserIds, m \in DOMAIN keyboards :
        \E k \in DOMAIN keyboards[m] :
            /\ button_handler(u, keyboards[m][k].callback_data, FALSE)
            /\ discarded' = Discarded
            /\ keyboards' = IF reply'.text = Raised THEN keyboards
                            ELSE RemoveAt(keyboards, m)
            /\ UNCHANGED suspended

NextMenus ==
    \/ MenusNewCategory
    \/ MenusUploadCommand
    \/ MenusHandleDocument
    \/ MenusFinishUpload
    \/ MenusShowFilesForDeletion
    \/ MenusDeleteButton

SpecMenus == Init /\ [][NextMenus]_vars

(* ------------------------------ properties ---------------------------- *)

\* the file list a read of category c shows
FileList(c) == get_category(c).files

\* the rows of table files that a batch stored for category c would be
StoredAs(batch, c, rows) ==
    /\ Len(rows) = Len(batch)
    /\ \A i \in 1..Len(batch) :
           /\ rows[i].category_id = c
           /\ rows[i].file_id = batch[i].file_id
           /\ rows[i].file_name = batch[i].file_name

\* the step is a finish_upload that reached the database write
CommitStep == reply'.text \in {"files_added", "save_failed"}

\* C1: a commit of a session holding N >= 1 files leaves table files either
\* as it was or extended by exactly the N records of the batch, all for the
\* target category; never by a strict non-empty part of the batch.
C1_CommitAllOrNothing ==
    [][CommitStep =>
          LET session == pending_uploads[reply'.chat]
          IN  \/ files' = files
              \/ /\ Len(files') = Len(files) + Len(session.files)
                 /\ SubSeq(files', 1, Len(files)) = files
                 /\ StoredAs(session.files, session.category_id,
                             SubSeq(files', Len(files) + 1, Len(files')))]_vars

\* a commit failed on its second file, after the insert of the first
C1_Witness ==
    /\ reply.text = "save_failed"
    /\ Len(pending_uploads[reply.chat].files) >= 2
    /\ pending_uploads[reply.chat].files[1].file_name # None
    /\ pending_uploads[reply.chat].files[2].file_name = None

\* C2: a commit whose write succeeds, on a category that exists, leaves the
\* caller without a session, reports the number of accumulated files and
\* makes the file list of the category its previous list followed by the
\* accumulated files in the order of their submission.
C2_CommitAppendsInOrder ==
    [][(CommitStep /\ reply'.text = "files_added") =>
          \A u \in UserIds, c \in DOMAIN categories :
              (u = reply'.chat /\ c = pending_uploads[u].category_id) =>
                  /\ u \notin DOMAIN pending_uploads'
                  /\ reply'.n = Len(pending_uploads[u].files)
                  /\ FileList(c)' = FileList(c) \o pending_uploads[u].files]_vars

\* a commit has added files behind the files a live category already had
C2_Witness ==
    /\ reply.text = "files_added"
    /\ SliceFrom(reply.link, 4) \in DOMAIN categories
    /\ Len(FileList(SliceFrom(reply.link, 4))) > reply.n

\* C3: a commit whose write fails leaves the caller's session (target
\* category and accumulated files, in order) and the repository as they were.
C3_FailedCommitKeepsSession ==
    [][(CommitStep /\ reply'.text = "save_failed") =>
          /\ reply'.chat \in DOMAIN pending_uploads'
          /\ pending_uploads'[reply'.chat] = pending_uploads[reply'.chat]
          /\ UNCHANGED <<categories, files, sqlite_sequence>>]_vars

\* a commit has failed and its session still holds the batch
C3_Witness ==
    /\ reply.text = "save_failed"
    /\ reply.chat \in DOMAIN pending_uploads
    /\ pending_uploads[reply.chat].files # <<>>

\* C4: a commit against a category id that is not in the repository at the
\* moment of the call does not succeed and stores no file record.
C4_CommitToAbsentCategoryFails ==
    [][(CommitStep /\ pending_uploads[reply'.chat].category_id \notin DOMAIN categories) =>
          /\ reply'.text # "files_added"
          /\ files' = files]_vars

\* C5: an update from a user outside the admin set changes neither the
\* categories, nor the file records, nor any upload session.
C5_NonAdminChangesNothing ==
    [][reply'.chat \notin ADMIN_IDS =>
          UNCHANGED <<categories, files, sqlite_sequence, pending_uploads>>]_vars

\* a non-admin has sent a document while a category and a session exist
C5_Witness ==
    /\ reply.chat \in UserIds \ ADMIN_IDS
    /\ reply.text = NoReply
    /\ DOMAIN categories # {}
    /\ DOMAIN pending_uploads # {}

\* C6: every start of an upload session (the upload command and the
\* add-files callback) puts the caller into a session only for a category
\* that exists.
C6_StartRequiresCategory ==
    [][reply'.text \in {"upload_started", "adding_started"} =>
          pending_uploads'[reply'.chat].category_id \in DOMAIN categories]_vars

\* the indexes a del_file_ callback can carry in the model
FileIndexes == (0 - MaxRowId)..MaxRowId

\* C7: delete_file on an existing category with an index outside 0 .. n-1,
\* negative ones included, fails and leaves table files as it was.
C7_OutOfRangeDeleteFails ==
    \A c \in DOMAIN categories, i \in FileIndexes :
        i \notin 0..(Len(SelectFilesWhere(files, c)) - 1) =>
            /\ ~delete_file(c, i, FALSE).ok
            /\ delete_file(c, i, FALSE).files = files

\* C8: deleting the file at index i, 0 <= i < n, of category c removes the
\* file a read showed at position i; a read afterwards shows the other n-1
\* files in their previous order, and the files of no other category change.
C8_DeleteRemovesFileAtIndex ==
    [][reply'.text = "file_deleted" =>
          \A u \in UserIds, c \in DOMAIN categories, i \in 0..MaxRowId :
              (i < Len(FileList(c)) /\ delete_file_from_category(u, c, i, FALSE)) =>
                  /\ reply'.name = FileList(c)[i + 1].file_name
                  /\ categories' = categories
                  /\ FileList(c)' = RemoveAt(FileList(c), i + 1)
                  /\ \A d \in DOMAIN categories \ {c} : FileList(d)' = FileList(d)]_vars

\* the file "n1" was deleted from the only category, which keeps "n2"
C8_Witness ==
    /\ reply.text = "file_deleted"
    /\ reply.name = "n1"
    /\ Cardinality(DOMAIN categories) = 1
    /\ \E c \in DOMAIN categories :
           /\ Len(FileList(c)) = 1
           /\ FileList(c)[1].file_name = "n2"

\* C9: after the deletion of category c succeeds, c and all its file records
\* are gone, a read of c and a file deletion in c find nothing, and every
\* other category keeps its row and its files.
C9_DeleteCategoryRemovesAll ==
    [][reply'.text = "category_deleted" =>
          \A u \in UserIds, c \in DOMAIN categories :
              delete_category_handler(u, c, FALSE) =>
                  /\ c \notin DOMAIN categories'
                  /\ \A k \in 1..Len(files') : files'[k].category_id # c
                  /\ (get_category(c) = NoCategory)'
                  /\ \A i \in FileIndexes : (~delete_file(c, i, FALSE).ok)'
                  /\ \A d \in DOMAIN categories \ {c} :
                         /\ d \in DOMAIN categories'
                         /\ categories'[d] = categories[d]
                         /\ FileList(d)' = FileList(d)]_vars

\* a category was deleted while another category keeps its file
C9_Witness ==
    /\ reply.text = "category_deleted"
    /\ \E d \in DOMAIN categories : FileList(d) # <<>>

\* C10: a successful creation returns an id that no live category has, and
\* a read of that id right afterwards shows the new category, with its name
\* and creator and an empty file list.
C10_CreatedCategoryIsFreshAndEmpty ==
    [][reply'.text = "category_created" =>
          \A c \in CategoryIds :
              c = SliceFrom(reply'.link, 4) =>
                  /\ c \notin DOMAIN categories
                  /\ get_category(c)'.name = reply'.name
                  /\ get_category(c)'.created_by = reply'.chat
                  /\ get_category(c)'.files = <<>>]_vars

\* C11: a creation whose generated id is the id of a live category fails
\* and says so to the caller; the categories (name, creator and creation
\* time of each) and the file list of the live category stay as they were.
C11_CollisionIsDetected ==
    [][\A u \in UserIds, a \in NewCategoryArgs, c \in DOMAIN categories,
          t \in Timestamps :
              (/\ reply'.chat = u
               /\ is_admin(u)
               /\ a # <<>>
               /\ new_category(u, a, c, t, FALSE)) =>
                  /\ reply'.text = "create_failed"
                  /\ categories' = categories
                  /\ files' = files
                  /\ FileList(c)' = FileList(c)]_vars

\* a creation failed while every id the generator can draw was live, one of
\* them holding a file
C11_Witness ==
    /\ reply.text = "create_failed"
    /\ DOMAIN categories = CategoryIds
    /\ \E c \in DOMAIN categories : FileList(c) # <<>>

\* C12: a commit by a caller whose session holds no file answers that no
\* file was uploaded and leaves the repository and every session, the
\* caller's included, as they were.
C12_EmptyCommitChangesNothing ==
    [][\A u \in UserIds :
          (/\ u \in DOMAIN pending_uploads
           /\ pending_uploads[u].files = <<>>
           /\ finish_upload(u, 0)) =>
              /\ reply'.text = "no_files_uploaded"
              /\ UNCHANGED <<categories, files, sqlite_sequence, pending_uploads>>]_vars

\* a commit was refused for an empty session, which is still there
C12_Witness ==
    /\ reply.text = "no_files_uploaded"
    /\ reply.chat \in DOMAIN pending_uploads
    /\ pending_uploads[reply.chat].files = <<>>

\* C13: a start by a caller (the upload command on a live category, or the
\* add-files callback) leaves that caller with one session, for the category
\* of the start and with no file in it, whatever the caller had accumulated
\* before; the other sessions and the repository stay as they were, and the
\* rows any step adds to table files are the accumulator of a session as it
\* is at that step, so files a start has replaced are in no later commit.
C13_StartReplacesSession ==
    [][/\ reply'.text \in {"upload_started", "adding_started"} =>
              \A u \in UserIds, c \in CategoryIds :
                  (/\ is_admin(u)
                   /\ \/ (c \in DOMAIN categories /\ upload_command(u, <<c>>))
                      \/ start_adding_files(u, c)) =>
                      /\ DOMAIN pending_uploads' = DOMAIN pending_uploads \cup {u}
                      /\ pending_uploads'[u] = [category_id |-> c, files |-> <<>>]
                      /\ \A v \in DOMAIN pending_uploads \ {u} :
                             pending_uploads'[v] = pending_uploads[v]
                      /\ UNCHANGED <<categories, files, sqlite_sequence>>
       /\ (files' # files /\ Len(files') >= Len(files)) =>
              \E u \in DOMAIN pending_uploads :
                  /\ SubSeq(files', 1, Len(files)) = files
                  /\ StoredAs(pending_uploads[u].files, pending_uploads[u].category_id,
                              SubSeq(files', Len(files) + 1, Len(files')))]_vars

\* an upload command has replaced a session that held two files
C13_Witness ==
    /\ reply.text = "upload_started"
    /\ discarded = 2
    /\ pending_uploads[reply.chat].files = <<>>

\* C14: a cancel by a caller who has an upload session leaves that caller
\* without a session.
C14_CancelDiscardsSession ==
    [][\A u \in UserIds :
          (/\ is_admin(u)
           /\ u \in DOMAIN pending_uploads
           /\ button_handler(u, cancel_data, FALSE)) =>
              u \notin DOMAIN pending_uploads']_vars

\* C15: a document from a caller without a session changes no session and
\* nothing in the repository, and is not answered; a document from a caller
\* with a session puts that one file behind the files of the caller's
\* session and changes nothing else.
C15_SubmissionAppendsOrIsIgnored ==
    [][\A u \in UserIds, m \in DocumentMessages :
          (/\ reply'.chat = u
           /\ reply'.text \in {NoReply, "file_received"}
           /\ handle_document(u, m)) =>
              /\ UNCHANGED <<categories, files, sqlite_sequence>>
              /\ DOMAIN pending_uploads' = DOMAIN pending_uploads
              /\ \A v \in DOMAIN pending_uploads \ {u} :
                     pending_uploads'[v] = pending_uploads[v]
              /\ IF u \notin DOMAIN pending_uploads
                 THEN reply'.text = NoReply
                 ELSE LET old == pending_uploads[u]
                          new == pending_uploads'[u]
                      IN  /\ new.category_id = old.category_id
                          /\ Len(new.files) = Len(old.files) + 1
                          /\ SubSeq(new.files, 1, Len(old.files)) = old.files
                          /\ new.files[Len(new.files)].file_id = m.file_id
                          /\ new.files[Len(new.files)].file_name = m.file_name
                          /\ new.files[Len(new.files)].file_size = m.file_size]_vars

\* a second document was received behind a first one of another name
C15_Witness ==
    /\ reply.text = "file_received"
    /\ reply.n = 2
    /\ reply.chat \in DOMAIN pending_uploads
    /\ Len(pending_uploads[reply.chat].files) = 2
    /\ pending_uploads[reply.chat].files[2].file_name = reply.name
    /\ pending_uploads[reply.chat].files[1].file_name # reply.name

C17_AcknowledgedFilesAreKept ==
    [][/\ \A u \in AsyncUserIds :
              CopiesIn(AckTask(u), suspended') > CopiesIn(AckTask(u), suspended) =>
                  /\ reply'.text = "file_received"
                  /\ u \in DOMAIN pending_uploads'
                  /\ Len(pending_uploads'[u].files) = reply'.n
                  /\ pending_uploads'[u].files[reply'.n].file_name = reply'.name
       /\ \A u \in DOMAIN pending_uploads :
              LET old == pending_uploads[u]
              IN  \/ /\ u \in DOMAIN pending_uploads'
                     /\ pending_uploads'[u].category_id = old.category_id
                     /\ IsPrefix(old.files, pending_uploads'[u].files)
                  \/ /\ u \notin DOMAIN pending_uploads'
                     /\ reply'.text = "files_added"
                     /\ SubSeq(files', 1, Len(files)) = files
                     /\ StoredAs(old.files, old.category_id,
                                 SubSeq(files', Len(files) + 1, Len(files')))
                  \/ /\ reply'.chat = u
                     /\ reply'.text \in {"upload_started", "adding_started"}
                     /\ u \in DOMAIN pending_uploads'
                     /\ pending_uploads'[u].files = <<>>]_vars

\* a commit has overtaken the acknowledgement of a document: the file is
\* stored and handle_document is still suspended at its reply_text
C17_Witness ==
    /\ reply.text = "files_added"
    /\ CopiesIn(AckTask(reply.chat), suspended) >= 1
    /\ reply.chat \notin DOMAIN pending_uploads
    /\ Len(files) = reply.n

\* the callback data of the model that are no token of the bot: a del_file_
\* token whose index is no number, one whose index is missing, and one of
\* an unknown prefix
MalformedData ==
    {<<"d", "e", "l", "_", "f", "i", "l", "e", "_", "a", "_", "x">>,
     <<"d", "e", "l", "_", "f", "i", "l", "e", "_", "a">>,
     <<"z">>}

\* C18: handling a malformed token raises no exception and changes neither
\* the repository nor any session.
C18_MalformedTokenIsRejected ==
    [][\A u \in UserIds, d \in MalformedData :
          (/\ reply'.chat = u
           /\ is_admin(u)
           /\ button_handler(u, d, FALSE)) =>
              /\ reply'.text # Raised
              /\ UNCHANGED <<categories, files, sqlite_sequence, pending_uploads>>]_vars

\* what the dispatcher makes of a token: the handler it calls and the
\* category id and the index it passes
Decoded(handler, category_id, file_index) ==
    [to |-> handler, category_id |-> category_id, file_index |-> file_index]

\* C19: for every category that was created, the token the bot emits for
\* a variant, the id of the category and an index is dispatched to the
\* handler of that variant with that id and that index, the cancel token
\* next to the confirmation token of the category is dispatched too, and
\* the id sliced out of the start parameter of the category's link is the
\* id the link was made from.
C19_TokensRoundTrip ==
    \A c \in DOMAIN categories :
        /\ Route(view_data(c)) = Decoded("view_category_files", c, 0)
        /\ Route(add_data(c)) = Decoded("start_adding_files", c, 0)
        /\ Route(delete_file_data(c)) = Decoded("show_files_for_deletion", c, 0)
        /\ Route(delete_cat_data(c)) = Decoded("confirm_category_deletion", c, 0)
        /\ Route(confirm_del_cat_data(c)) = Decoded("delete_category", c, 0)
        /\ \A i \in 0..MaxRowId :
               Route(del_file_data(c, i)) = Decoded("delete_file_from_category", c, i)
        /\ Route(cancel_data).to \notin {NoReply, Raised}
        /\ startswith(generate_category_link(c), <<"c", "a", "t", "_">>)
        /\ SliceFrom(generate_category_link(c), 4) = c

\* C20: every row of table files belongs to a category that exists.
C20_NoOrphanFileRecords ==
    \A k \in 1..Len(files) : files[k].category_id \in DOMAIN categories

\* C21: every user who has an upload session is in the admin set.
C21_SessionsBelongToAdmins ==
    \A u \in DOMAIN pending_uploads : u \in ADMIN_IDS

\* a user outside the admin set was refused while an admin has a session
C21_Witness ==
    /\ reply.chat \in UserIds \ ADMIN_IDS
    /\ reply.text = "not_authorized"
    /\ DOMAIN pending_uploads # {}

\* C22: a commit stores a row for each accumulated file, once, exactly when
\* it ends the session, and otherwise stores nothing and keeps the session;
\* a commit by a caller who has no session, as after a successful commit,
\* stores nothing.  So no accumulated file is stored by two commits.
C22_FilesAreStoredOnce ==
    [][/\ CommitStep =>
              \A u \in DOMAIN pending_uploads :
                  u = reply'.chat =>
                      \/ /\ u \notin DOMAIN pending_uploads'
                         /\ Len(files') = Len(files) + Len(pending_uploads[u].files)
                         /\ SubSeq(files', 1, Len(files)) = files
                         /\ StoredAs(pending_uploads[u].files,
                                     pending_uploads[u].category_id,
                                     SubSeq(files', Len(files) + 1, Len(files')))
                      \/ /\ u \in DOMAIN pending_uploads'
                         /\ pending_uploads'[u] = pending_uploads[u]
                         /\ files' = files
       /\ \A u \in UserIds :
              (/\ reply'.chat = u
               /\ u \notin DOMAIN pending_uploads
               /\ finish_upload(u, 0)) =>
                  /\ reply'.text = "no_upload"
                  /\ UNCHANGED <<categories, files, sqlite_sequence, pending_uploads>>]_vars

\* an admin whose files are stored, and who has not started again, has
\* sent /finish_upload once more
C22_Witness ==
    /\ reply.text = "no_upload"
    /\ reply.chat \in ADMIN_IDS
    /\ files # <<>>
    /\ Len(files) = sqlite_sequence

\* C23: the file that the press of a button of a deletion menu removes is
\* the file whose name the button shows.
C23_DeleteButtonRemovesShownFile ==
    [][\A u \in AdminUserIds, m \in DOMAIN keyboards :
          \A k \in DOMAIN keyboards[m] :
              (/\ reply'.chat = u
               /\ reply'.text = "file_deleted"
               /\ button_handler(u, keyboards[m][k].callback_data, FALSE)) =>
                  /\ reply'.name = keyboards[m][k].text
                  /\ \A j \in 1..Len(files) :
                         (\A i \in 1..Len(files') : files'[i].id # files[j].id) =>
                             files[j].file_name = keyboards[m][k].text]_vars

\* C24: a start of a session, a submitted file or a commit by caller A
\* leaves the session of every other caller B as it was (no session, or
\* the same target category and the same accumulated files), also when
\* both sessions target the same category.
C24_SessionsAreIsolated ==
    [][\A A \in AdminUserIds :
          \/ \A B \in (AdminUserIds \cup DOMAIN pending_uploads
                        \cup DOMAIN pending_uploads') \ {A} :
                 /\ B \in DOMAIN pending_uploads <=> B \in DOMAIN pending_uploads'
                 /\ B \in DOMAIN pending_uploads =>
                        pending_uploads'[B] = pending_uploads[B]
          \/ ~ /\ reply'.chat = A
               /\ \/ \E a \in UploadArgs : upload_command(A, a)
                  \/ \E d \in AdminsData : button_handler(A, d, FALSE)
                  \/ \E m \in DocumentMessages : handle_document(A, m)
                  \/ \E fault \in 0..(MaxRowId + 1) : finish_upload(A, fault)]_vars

\* caller A has committed into a category while another caller still holds
\* a session with a file for the same category
C24_Witness ==
    /\ reply.text = "files_added"
    /\ reply.chat \notin DOMAIN pending_uploads
    /\ \E B \in DOMAIN pending_uploads :
           /\ B # reply.chat
           /\ pending_uploads[B].files # <<>>
           /\ generate_category_link(pending_uploads[B].category_id) = reply.link
           /\ \E i \in 1..Len(files) :
                  files[i].category_id = pending_uploads[B].category_id

====
